---- MODULE Spec2Model ----
(***************************************************************************)
(* Standalone embedding (bokeh/embed/standalone.py): autoload_static,      *)
(* components, file_html and json_item, together with the private helpers  *)
(* _check_models_or_docs and _title_from_models.                           *)
(*                                                                         *)
(* The object model (Model, Document), the scoped container resolver       *)
(* OutputDocumentFor and the serialization bridge                          *)
(* standalone_docs_json(_and_render_items) live in other modules of the    *)
(* package; they are modelled from the design document (sections 3 and     *)
(* 4.1-4.3): Env, Expand, Reusable, ThemeInEffect, OutputDocumentFor,      *)
(* OutputDocumentFor_exit, DocJson and the two standalone_docs_json        *)
(* operators.                                                              *)
(*                                                                         *)
(* Python values are encoded as strings and records:                       *)
(*   a Model or a Document is its name ("m1", "d1"), None is "None";       *)
(*   an argument `models` is [kind, obj, keys, items] with kind one of     *)
(*   "Model", "Document", "Sequence", "dict", "other".                     *)
(* Inputs are non-empty: the design document does not say what the         *)
(* resolver does with an empty list of roots.                              *)
(***************************************************************************)
EXTENDS Integers, Sequences, FiniteSets

VARIABLES roots, title, theme, document, last

vars == <<roots, title, theme, document, last>>

\* ------------------------------------------------------------------ bounds
MaxLen == 2

\* --------------------------------------------------------------- universe
None == "None"
Models == {"m1", "m2"}
Docs == {"d1", "d2"}
Junk == "junk"
TMP == "tmp"
ModelLike == Models \cup Docs
\* What the caller puts into collections: the Models, the Document d1 and a
\* value that is neither a Model nor a Document.
Elem == Models \cup {"d1", Junk}
StrKeys == {"a", "b"}
NonStrKey == "#7"
Keys == StrKeys \cup {NonStrKey}
DEFAULT_TITLE == "DEFAULT_TITLE"
DefaultTheme == "default"
DocTitles == {DEFAULT_TITLE, "A"}
DocThemes == {None, "T1"}
TitleArgs == {None, "Foo"}
ThemeArgs == {None, "T2"}
TargetArgs == {None, "myplot"}

Range(s) == {s[i] : i \in DOMAIN s}

SeqUpTo(S, n) == UNION {[1..k -> S] : k \in 1..n}

Injective(s) == \A i, j \in DOMAIN s : s[i] = s[j] => i = j

AModel(m) == [kind |-> "Model", obj |-> m, keys |-> <<>>, items |-> <<>>]

ADocument(d) == [kind |-> "Document", obj |-> d, keys |-> <<>>, items |-> <<>>]

ASequence(s) == [kind |-> "Sequence", obj |-> None, keys |-> <<>>, items |-> s]

ADict(k, s) == [kind |-> "dict", obj |-> None, keys |-> k, items |-> s]

AnOther == [kind |-> "other", obj |-> None, keys |-> <<>>, items |-> <<>>]

\* What a caller can hand to components.
ComponentsInputs ==
    {AModel(m) : m \in Models} \cup {ADocument(d) : d \in Docs} \cup {AnOther}
    \cup {ASequence(s) : s \in SeqUpTo(Elem, MaxLen)}
    \cup UNION {{ADict(k, s) : s \in [DOMAIN k -> Elem]} :
                 k \in {q \in SeqUpTo(Keys, MaxLen) : Injective(q)}}

\* What a caller can hand to file_html: a Model, a Document, or a sequence.
FileHtmlInputs ==
    {AModel(m) : m \in Models} \cup {ADocument(d) : d \in Docs}
    \cup {ASequence(s) : s \in SeqUpTo(Elem \ {Junk}, MaxLen)}

\* What a caller can hand to autoload_static.
AutoloadInputs ==
    {AModel(m) : m \in Models} \cup {ADocument(d) : d \in Docs} \cup {AnOther}

\* ------------------------------------------------------ the object model
\* The caller's objects: each Document's ordered roots, title and theme, and
\* each Model's back-reference to its owning Document.
Env == [roots |-> roots, title |-> title, theme |-> theme, document |-> document]

AllDocs == Docs \cup {TMP}

RECURSIVE Expand(_, _)
\* A Document among the items stands for all of its current roots.
Expand(items, rts) ==
    IF items = <<>> THEN <<>>
    ELSE (IF Head(items) \in Docs THEN rts[Head(items)] ELSE <<Head(items)>>)
         \o Expand(Tail(items), rts)

Without(s, gone) == SelectSeq(s, LAMBDA m : m \notin gone)

\* Every item already shares exactly one Document, whose roots they all are.
Reusable(E, objs, d) ==
    /\ \A i \in DOMAIN objs : E.document[objs[i]] = d
    /\ Range(objs) = Range(E.roots[d])

\* Theme precedence: explicit theme, else the reused Document's theme, else
\* the default theme.
ThemeInEffect(apply_theme, carried) ==
    IF apply_theme # None THEN apply_theme
    ELSE IF carried # None THEN carried
    ELSE DefaultTheme

\* Entering the scope `with OutputDocumentFor(objs, apply_theme, always_new)`.
OutputDocumentFor(E, items, apply_theme, always_new) ==
    LET objs == Expand(items, E.roots)
        reuse == ~always_new /\ \E d \in Docs : Reusable(E, objs, d)
    IN  IF reuse
        THEN LET d == CHOOSE x \in Docs : Reusable(E, objs, x)
             IN  [doc |-> d, transient |-> FALSE, saved |-> E,
                  roots |-> [x \in AllDocs |-> IF x = TMP THEN <<>> ELSE E.roots[x]],
                  title |-> [x \in AllDocs |-> IF x = TMP THEN None ELSE E.title[x]],
                  theme |-> [x \in AllDocs |->
                               IF x = TMP THEN None
                               ELSE IF x = d THEN ThemeInEffect(apply_theme, E.theme[d])
                               ELSE E.theme[x]],
                  document |-> E.document]
        ELSE [doc |-> TMP, transient |-> TRUE, saved |-> E,
              roots |-> [x \in AllDocs |->
                           IF x = TMP THEN objs ELSE Without(E.roots[x], Range(objs))],
              title |-> [x \in AllDocs |-> IF x = TMP THEN DEFAULT_TITLE ELSE E.title[x]],
              theme |-> [x \in AllDocs |->
                           IF x = TMP THEN ThemeInEffect(apply_theme, None)
                           ELSE E.theme[x]],
              document |-> [m \in Models |->
                              IF m \in Range(objs) THEN TMP ELSE E.document[m]]]

\* A plausible slip: the roots stay attached to the Document of the scope.
OutputDocumentFor_exit_leaking(S) ==
    [roots |-> [d \in Docs |-> S.roots[d]],
     title |-> [d \in Docs |-> S.title[d]],
     theme |-> S.saved.theme,
     document |-> S.document]

\* Leaving the scope: the recorded associations and themes are put back and
\* the transient Document is dropped. Titles are not part of the scope.
OutputDocumentFor_exit(S) ==
    [roots |-> S.saved.roots,
     title |-> [d \in Docs |-> S.title[d]],
     theme |-> S.saved.theme,
     document |-> S.saved.document]

\* What an observer of the call sees of the scope.
ScopeOf(S) == [doc |-> S.doc, transient |-> S.transient, theme |-> S.theme[S.doc],
               attached |-> {m \in Models : S.document[m] = S.doc}]

NoScope == [doc |-> None, transient |-> FALSE, theme |-> None, attached |-> {}]

\* ------------------------------------------------- serialization bridge
\* Document.to_json: the resolved Document as it is inside the scope.
DocJson(S) == [title |-> S.title[S.doc], theme |-> S.theme[S.doc], roots |-> S.roots[S.doc]]

\* One render item for the resolved Document; one root entry per requested
\* top-level object, in request order, a Document standing for its roots.
standalone_docs_json_and_render_items(S, items) ==
    LET objs == Expand(items, S.saved.roots)
    IN  [docs_json |-> DocJson(S),
         render_items |-> << [docid |-> S.doc,
                              roots |-> [i \in DOMAIN objs |->
                                           [model |-> objs[i], elementid |-> i]]] >>]

standalone_docs_json(S, items) == DocJson(S)

\* ------------------------------------------------------------ outcomes
Returned(v) == [status |-> "return", exc |-> None, value |-> v]

NoValue == [none |-> TRUE]

Raised(exc) == [status |-> "raise", exc |-> exc, value |-> NoValue]

\* The result of running an entry point: what the caller gets, the caller's
\* objects afterwards, the scope that was in use and the stages that ran.
Ran(out, E, scope, steps) == [out |-> out, env |-> E, scope |-> scope, steps |-> steps]

\* ------------------------------------------------------- private helpers
\* A plausible slip: the keys of a dict are not looked at.
_check_models_or_docs_any_key(models) ==
    LET wrapped == IF models.kind \in {"Model", "Document"}
                   THEN ASequence(<<models.obj>>)
                   ELSE models
        is_sequence == /\ wrapped.kind = "Sequence"
                       /\ \A i \in DOMAIN wrapped.items : wrapped.items[i] \in ModelLike
        is_dict == /\ wrapped.kind = "dict"
                   /\ \A i \in DOMAIN wrapped.items : wrapped.items[i] \in ModelLike
    IN  [ok |-> is_sequence \/ is_dict, value |-> wrapped]

_check_models_or_docs(models) ==
    LET wrapped == IF models.kind \in {"Model", "Document"}
                   THEN ASequence(<<models.obj>>)
                   ELSE models
        is_sequence == /\ wrapped.kind = "Sequence"
                       /\ \A i \in DOMAIN wrapped.items : wrapped.items[i] \in ModelLike
        is_dict == /\ wrapped.kind = "dict"
                   /\ \A i \in DOMAIN wrapped.keys : wrapped.keys[i] \in StrKeys
                   /\ \A i \in DOMAIN wrapped.items : wrapped.items[i] \in ModelLike
    IN  [ok |-> is_sequence \/ is_dict, value |-> wrapped]

\* The position of the first element of s that is in `wanted`.
FirstIndex(s, wanted) ==
    CHOOSE i \in DOMAIN s : s[i] \in wanted /\ \A j \in 1..(i - 1) : s[j] \notin wanted

\* Evaluated inside the scope S: Model.document and Document.title are read
\* as they are while the scope is active.
_title_from_models(S, models, t) ==
    LET with_document == {p \in Models : S.document[p] # None}
    IN  IF t # None THEN t
        ELSE IF \E i \in DOMAIN models : models[i] \in Docs
        THEN S.title[models[FirstIndex(models, Docs)]]
        ELSE IF \E i \in DOMAIN models : models[i] \in with_document
        THEN S.title[S.document[models[FirstIndex(models, with_document)]]]
        ELSE DEFAULT_TITLE

\* ------------------------------------------------------------ components
div_for_root(root) == [kind |-> "div", model |-> root.model, elementid |-> root.elementid]

RenderRoot(root) == [kind |-> "root", model |-> root.model, elementid |-> root.elementid]

Min(a, b) == IF a < b THEN a ELSE b

\* A plausible slip: the single-object case is forgotten.
components_result_never_single(was_single_object, has_keys, model_keys, results) ==
    IF has_keys
    THEN LET n == Min(Len(model_keys), Len(results))
         IN  [shape |-> "dict", keys |-> SubSeq(model_keys, 1, n),
              vals |-> SubSeq(results, 1, n)]
    ELSE [shape |-> "tuple", keys |-> <<>>, vals |-> results]

\* Step 3 of components: convert back to the input shape.
components_result(was_single_object, has_keys, model_keys, results) ==
    IF was_single_object
    THEN [shape |-> "bare", keys |-> <<>>, vals |-> <<results[1]>>]
    ELSE IF has_keys
    THEN LET n == Min(Len(model_keys), Len(results))
         IN  [shape |-> "dict", keys |-> SubSeq(model_keys, 1, n),
              vals |-> SubSeq(results, 1, n)]
    ELSE [shape |-> "tuple", keys |-> <<>>, vals |-> results]

\* A plausible slip: the theme argument is not handed on.
components_scope_without_theme(E, items, th) == OutputDocumentFor(E, items, None, FALSE)

\* Step 2 of components: `with OutputDocumentFor(models, apply_theme=theme)`.
components_scope(E, items, th) == OutputDocumentFor(E, items, th, FALSE)

components(E, models, wrap_script, wrap_plot_info, th, raises) ==
    LET was_single_object == models.kind = "Model"
        listed == IF was_single_object THEN ASequence(<<models.obj>>) ELSE models
        checked == _check_models_or_docs(listed)
    IN  IF ~checked.ok
        THEN Ran(Raised("ValueError"), E, NoScope, <<"_check_models_or_docs">>)
        ELSE
        LET has_keys == checked.value.kind = "dict"
            model_keys == checked.value.keys
            items == checked.value.items
            S == components_scope(E, items, th)
        IN  IF raises
            THEN Ran(Raised("UnsupportedRootError"), OutputDocumentFor_exit(S), ScopeOf(S),
                     <<"_check_models_or_docs", "OutputDocumentFor", "serialize">>)
            ELSE
            LET ser == standalone_docs_json_and_render_items(S, items)
                render_item == ser.render_items[1]
                script == [docs_json |-> ser.docs_json, render_items |-> <<render_item>>,
                           tag |-> wrap_script]
                results == [i \in DOMAIN render_item.roots |->
                              IF wrap_plot_info
                              THEN div_for_root(render_item.roots[i])
                              ELSE RenderRoot(render_item.roots[i])]
                result == components_result(was_single_object, has_keys, model_keys, results)
            IN  Ran(Returned([script |-> script, result |-> result]),
                    OutputDocumentFor_exit(S), ScopeOf(S),
                    <<"_check_models_or_docs", "OutputDocumentFor", "serialize", "compose">>)

\* ------------------------------------------------------------- file_html
file_html(E, models, t, th, always_new, raises) ==
    LET models_seq == IF models.kind = "Model" THEN <<models.obj>>
                      ELSE IF models.kind = "Document" THEN E.roots[models.obj]
                      ELSE models.items
        S == OutputDocumentFor(E, models_seq, th, always_new)
    IN  IF raises
        THEN Ran(Raised("UnsupportedRootError"), OutputDocumentFor_exit(S), ScopeOf(S),
                 <<"OutputDocumentFor", "serialize">>)
        ELSE
        LET ser == standalone_docs_json_and_render_items(S, models_seq)
            resolved == _title_from_models(S, models_seq, t)
        IN  Ran(Returned([title |-> resolved, docs_json |-> ser.docs_json,
                          render_items |-> ser.render_items]),
                OutputDocumentFor_exit(S), ScopeOf(S),
                <<"OutputDocumentFor", "serialize", "compose">>)

\* ------------------------------------------------------------- json_item
__version__ == "__version__"

\* A plausible slip: the title is cleared after the Document is serialized.
json_item_clears_late(E, model, target, th, raises) ==
    LET S0 == OutputDocumentFor(E, <<model.obj>>, th, FALSE)
        S == [S0 EXCEPT !.title[S0.doc] = ""]
    IN  IF raises
        THEN Ran(Raised("UnsupportedRootError"), OutputDocumentFor_exit(S), ScopeOf(S),
                 <<"OutputDocumentFor", "serialize">>)
        ELSE
        LET doc_json == standalone_docs_json(S0, <<model.obj>>)
            root_id == doc_json.roots[1]
        IN  Ran(Returned([target_id |-> target, root_id |-> root_id, doc |-> doc_json,
                          version |-> __version__]),
                OutputDocumentFor_exit(S), ScopeOf(S),
                <<"OutputDocumentFor", "serialize", "compose">>)

json_item(E, model, target, th, raises) ==
    LET S0 == OutputDocumentFor(E, <<model.obj>>, th, FALSE)
        S == [S0 EXCEPT !.title[S0.doc] = ""]
    IN  IF raises
        THEN Ran(Raised("UnsupportedRootError"), OutputDocumentFor_exit(S), ScopeOf(S),
                 <<"OutputDocumentFor", "serialize">>)
        ELSE
        LET doc_json == standalone_docs_json(S, <<model.obj>>)
            root_id == doc_json.roots[1]
        IN  Ran(Returned([target_id |-> target, root_id |-> root_id, doc |-> doc_json,
                          version |-> __version__]),
                OutputDocumentFor_exit(S), ScopeOf(S),
                <<"OutputDocumentFor", "serialize", "compose">>)

\* ------------------------------------------------------- autoload_static
autoload_static(E, model, raises) ==
    IF model.kind \notin {"Model", "Document"}
    THEN Ran(Raised("ValueError"), E, NoScope, <<>>)
    ELSE
    LET models == IF model.kind = "Model" THEN <<model.obj>> ELSE E.roots[model.obj]
        S == OutputDocumentFor(E, models, None, FALSE)
    IN  IF raises
        THEN Ran(Raised("UnsupportedRootError"), OutputDocumentFor_exit(S), ScopeOf(S),
                 <<"OutputDocumentFor", "serialize">>)
        ELSE
        LET ser == standalone_docs_json_and_render_items(S, <<model.obj>>)
            render_item == ser.render_items[1]
            elementid == render_item.roots[1].elementid
        IN  Ran(Returned([js |-> [docs_json |-> ser.docs_json,
                                  render_items |-> <<render_item>>,
                                  elementid |-> elementid],
                          tag |-> [elementid |-> elementid]]),
                OutputDocumentFor_exit(S), ScopeOf(S),
                <<"OutputDocumentFor", "serialize", "compose">>)

\* --------------------------------------------------------- state machine
\* `last` is the most recent call: entry point, arguments, outcome, the scope
\* it used, the stages it ran and whether it repeated the call before it.
\* Unused arguments keep their defaults.
Args(models, t, th, always_new, wrap_script, wrap_plot_info, target, raises) ==
    [models |-> models, title |-> t, theme |-> th, always_new |-> always_new,
     wrap_script |-> wrap_script, wrap_plot_info |-> wrap_plot_info,
     target |-> target, raises |-> raises]

NoArgs == Args(AnOther, None, None, FALSE, TRUE, TRUE, None, FALSE)

NoCall == [op |-> "none", args |-> NoArgs, out |-> Raised(None), scope |-> NoScope,
           steps |-> <<>>, again |-> FALSE]

Run(op, a) ==
    CASE op = "components" ->
           components(Env, a.models, a.wrap_script, a.wrap_plot_info, a.theme, a.raises)
      [] op = "file_html" ->
           file_html(Env, a.models, a.title, a.theme, a.always_new, a.raises)
      [] op = "json_item" -> json_item(Env, a.models, a.target, a.theme, a.raises)
      [] op = "autoload_static" -> autoload_static(Env, a.models, a.raises)

Idle == last.op = "none"

\* The items of an input, a single object being a list of one.
RootsIn(models) ==
    IF models.kind = "Model" THEN <<models.obj>>
    ELSE IF models.kind = "Document" THEN roots[models.obj]
    ELSE models.items

Call(op, a) ==
    LET r == Run(op, a)
    IN  /\ last' = [op |-> op, args |-> a, out |-> r.out, scope |-> r.scope,
                    steps |-> r.steps, again |-> ~Idle]
        /\ roots' = r.env.roots
        /\ title' = r.env.title
        /\ theme' = r.env.theme
        /\ document' = r.env.document

\* The roots the call is about; the resolver is given at least one.
RootsOf(models) ==
    IF models.kind = "Model" THEN <<models.obj>>
    ELSE IF models.kind = "Document" THEN roots[models.obj]
    ELSE Expand(models.items, roots)

\* wrap_script only selects whether the script is wrapped in a tag.
Components ==
    /\ Idle
    /\ \E models \in ComponentsInputs, wrap_plot_info \in BOOLEAN,
          th \in ThemeArgs, raises \in BOOLEAN :
          /\ models.kind # "other" => RootsOf(models) # <<>>
          /\ Call("components",
                  Args(models, None, th, FALSE, TRUE, wrap_plot_info, None, raises))

FileHtml ==
    /\ Idle
    /\ \E models \in FileHtmlInputs, t \in TitleArgs, th \in ThemeArgs,
          always_new \in BOOLEAN, raises \in BOOLEAN :
          /\ RootsOf(models) # <<>>
          /\ Call("file_html", Args(models, t, th, always_new, TRUE, TRUE, None, raises))

JsonItem ==
    /\ Idle
    /\ \E m \in Models, target \in TargetArgs, th \in ThemeArgs, raises \in BOOLEAN :
          Call("json_item", Args(AModel(m), None, th, FALSE, TRUE, TRUE, target, raises))

AutoloadStatic ==
    /\ Idle
    /\ \E model \in AutoloadInputs, raises \in BOOLEAN :
          /\ model.kind # "other" => RootsOf(model) # <<>>
          /\ Call("autoload_static",
                  Args(model, None, None, FALSE, TRUE, TRUE, None, raises))

\* The caller makes the same call again, with the same arguments.
CallAgain ==
    /\ ~Idle
    /\ Call(last.op, last.args)

\* The caller is done with the artifact and goes on to something else.
Discard ==
    /\ ~Idle
    /\ last' = NoCall
    /\ UNCHANGED <<roots, title, theme, document>>

Orderings(S) == {s \in [1..Cardinality(S) -> S] : Injective(s)}

\* Any placement of the Models in the two Documents. The Document d1 has
\* the default title or "A" and carries the theme T1 or none; d2 is titled
\* "B" and carries no theme.
Init ==
    /\ document \in [Models -> Docs \cup {None}]
    /\ roots \in [Docs -> UNION {Orderings(M) : M \in SUBSET Models}]
    /\ \A d \in Docs : Range(roots[d]) = {m \in Models : document[m] = d}
    /\ title \in [Docs -> DocTitles \cup {"B"}]
    /\ title["d1"] \in DocTitles /\ title["d2"] = "B"
    /\ theme \in [Docs -> DocThemes]
    /\ theme["d2"] = None
    /\ last = NoCall

Next == Components \/ FileHtml \/ JsonItem \/ AutoloadStatic \/ CallAgain \/ Discard

Spec == Init /\ [][Next]_vars

\* ------------------------------------------------------------ properties
Did(op) == last.op = op

DidReturn(op) == last.op = op /\ last.out.status = "return"

Input == last.args.models

\* The input is one of the shapes components accepts.
ValidShape(models) ==
    \/ models.kind \in {"Model", "Document"}
    \/ /\ models.kind = "Sequence"
       /\ \A i \in DOMAIN models.items : models.items[i] \in ModelLike
    \/ /\ models.kind = "dict"
       /\ \A i \in DOMAIN models.keys : models.keys[i] \in StrKeys
       /\ \A i \in DOMAIN models.items : models.items[i] \in ModelLike

IsPrefix(s, t) == Len(s) <= Len(t) /\ \A i \in DOMAIN s : s[i] = t[i]

ProducedFor(res, item) ==
    IF item \in Docs THEN res.model \in Range(roots[item]) ELSE res.model = item

\* C2: for a sequence or mapping handed to components, there are as many
\* per-root results as input items, and the i-th result is the one produced
\* for the i-th input object.
C2_OneResultPerItem ==
    (DidReturn("components") /\ Input.kind \in {"Sequence", "dict"}) =>
        LET vals == last.out.value.script.render_items[1].roots
        IN  /\ Len(vals) = Len(Input.items)
            /\ Len(last.out.value.result.vals) = Len(Input.items)
            /\ \A i \in DOMAIN Input.items :
                 ProducedFor(last.out.value.result.vals[i], Input.items[i])

\* C3: autoload_static on a Document with more than one root fails with a
\* ValueError and produces no (js, tag).
C3_MultiRootRejected ==
    (Did("autoload_static") /\ ~last.args.raises /\ Input.kind = "Document"
        /\ Len(roots[Input.obj]) > 1) =>
        last.out = Raised("ValueError")

Called == last'.op # "none"

\* C4: across every step of the four entry points, returning or raising, each
\* Model's owning Document and each Document's roots are what they were
\* before, no Model is left attached to the transient Document, and a call
\* whose serialization raises ends with that error.
C4_AssociationsRestored ==
    [][Called =>
         /\ document' = document
         /\ roots' = roots
         /\ \A m \in Models : document'[m] # TMP
         /\ (last'.args.raises /\ last'.scope # NoScope) =>
               last'.out = Raised("UnsupportedRootError")]_vars

\* Serialization raised while Models owned by a Document were attached to a
\* transient Document, and they are back with their owner.
C4_Witness ==
    /\ last.out = Raised("UnsupportedRootError")
    /\ last.scope.transient
    /\ Cardinality(last.scope.attached) = 2
    /\ \A m \in last.scope.attached : document[m] \in Docs

\* The roots file_html works on, as the caller sees them.
FileHtmlSeq == RootsIn(Input)

FirstDocTitle(seq) == title[seq[FirstIndex(seq, Docs)]]

FirstOwnerTitle(seq) ==
    title[document[seq[FirstIndex(seq, {p \in Models : document[p] # None})]]]

\* C5: file_html resolves the page title as (1) the title argument when it is
\* not None, (2) else the title of the first input that is a Document,
\* (3) else the title of the Document owning the first input Model that has
\* an owner, (4) else the default title.
C5_TitlePrecedence ==
    DidReturn("file_html") =>
        LET seq == FileHtmlSeq
            got == last.out.value.title
        IN  IF last.args.title # None THEN got = last.args.title
            ELSE IF \E i \in DOMAIN seq : seq[i] \in Docs THEN got = FirstDocTitle(seq)
            ELSE IF \E i \in DOMAIN seq : document[seq[i]] # None
            THEN got = FirstOwnerTitle(seq)
            ELSE got = DEFAULT_TITLE

\* C6: a call that reuses the caller's Document leaves that Document's title
\* as it was, for every entry point.
C6_ReusedTitleKept ==
    [][(Called /\ last'.scope.doc \in Docs) =>
         title'[last'.scope.doc] = title[last'.scope.doc]]_vars

\* The JSON tree a returned artifact carries.
OutDocJson ==
    CASE last.op = "components" -> last.out.value.script.docs_json
      [] last.op = "file_html" -> last.out.value.docs_json
      [] last.op = "json_item" -> last.out.value.doc
      [] last.op = "autoload_static" -> last.out.value.js.docs_json

\* C7: in components, file_html and json_item an explicit theme is the theme
\* in effect during serialization; without one it is the theme the reused
\* Document carries; without either (transient Document, or a reused one
\* that carries none) it is the default theme.
C7_ThemePrecedence ==
    (last.op \in {"components", "file_html", "json_item"} /\ last.scope # NoScope) =>
        LET expected ==
                IF last.args.theme # None THEN last.args.theme
                ELSE IF ~last.scope.transient /\ theme[last.scope.doc] # None
                THEN theme[last.scope.doc]
                ELSE DefaultTheme
        IN  /\ last.scope.theme = expected
            /\ last.out.status = "return" => OutDocJson.theme = expected

\* An explicit theme T2 was in effect although the reused Document carries T1.
C7_Witness ==
    /\ DidReturn("components")
    /\ last.args.theme = "T2"
    /\ ~last.scope.transient
    /\ theme[last.scope.doc] = "T1"
    /\ OutDocJson.theme = "T2"

\* C8: components given anything but a Model, a Document, a sequence of
\* them or a str-keyed dict of them raises ValueError out of the input
\* check, before any Document is resolved and before anything is serialized
\* or composed.
C8_InvalidInputRejected ==
    (Did("components") /\ ~ValidShape(Input)) =>
        /\ last.out = Raised("ValueError")
        /\ last.scope = NoScope
        /\ last.steps = <<"_check_models_or_docs">>

\* A dict with a key that is not a str was rejected.
C8_Witness ==
    /\ Did("components")
    /\ Input.kind = "dict"
    /\ Input.keys = <<"a", NonStrKey>>
    /\ Range(Input.items) \subseteq Models
    /\ last.out = Raised("ValueError")

\* C9: the same entry point called again with the same arguments gives the
\* same outcome.
C9_SameCallSameOutput ==
    [][(~Idle /\ last'.op = last.op /\ last'.args = last.args) =>
         last'.out = last.out]_vars

\* json_item was called twice in a row on the sole root of a Document.
C9_Witness ==
    /\ DidReturn("json_item")
    /\ last.again
    /\ ~last.scope.transient

\* C10: file_html without a title argument, given Models that are all owned
\* by one Document C and no Document, resolves the title to C's title,
\* whether C is reused or a transient Document is in use.
C10_TitleOfOwner ==
    (DidReturn("file_html") /\ last.args.title = None /\ Input.kind \in {"Model", "Sequence"}) =>
        \A c \in Docs :
            (\A i \in DOMAIN FileHtmlSeq : FileHtmlSeq[i] \in Models /\ document[FileHtmlSeq[i]] = c)
                => last.out.value.title = title[c]

====
